---- MODULE Spec2Model ----
(***************************************************************************)
(* musicpaper (src/musicpaper.py): a poll loop reads the playing track,    *)
(* matches its title against the configured song keys and switches the     *)
(* wallpaper through hyprpaper or swww, restoring the startup wallpaper    *)
(* when nothing matches.                                                   *)
(*                                                                         *)
(* Encoding.  A Python str that is searched (song keys, group names,       *)
(* titles) is a sequence of one-character strings; a str that is only      *)
(* compared (wallpaper names, directories) is a TLA+ string.  A path is    *)
(* the sequence of its parts.  Optional[x] is a sequence of length 0       *)
(* (None) or 1 (Some).  A bool-returning method yields "True", "False" or  *)
(* "raise" (an exception leaves the method).                               *)
(***************************************************************************)
EXTENDS Integers, Sequences, FiniteSets, TLC

\* ------------------------------------------------------------------ bounds
\* How many entries of TitleTable the media player may report.
NumTitles == 3
\* How many entries of ConfigTable the configuration file may hold.
NumConfigs == 2

\* ---------------------------------------------------------------- encoding
None == <<>>
Some(x) == <<x>>

\* str.lower() on one character.
LowerChar(c) ==
  IF c = "A" THEN "a" ELSE IF c = "B" THEN "b" ELSE IF c = "Z" THEN "z" ELSE c

\* str.lower()
Lower(s) == [i \in 1..Len(s) |-> LowerChar(s[i])]

\* Python's `a in b` on two str: a is a contiguous part of b ("" is in every b).
Contains(b, a) ==
  \E i \in 0..(Len(b) - Len(a)) : SubSeq(b, i + 1, i + Len(a)) = a

\* `x in lst` on a list.
InList(x, lst) == \E i \in 1..Len(lst) : lst[i] = x

\* str.startswith('%')
IsGroupKey(k) == Len(k) > 0 /\ k[1] = "%"

\* ------------------------------------------------------------ configuration
\* One item of the song_wallpapers table: a str value (a song's wallpaper, or
\* a group's wallpaper) or a list value (a group's member songs).
StrEntry(k, v) == [key |-> k, isList |-> FALSE, str |-> v, list |-> <<>>]
ListEntry(k, l) == [key |-> k, isList |-> TRUE, str |-> "", list |-> l]

ConfigTable ==
  << \* "ab" = "w1", "b" = "w2"
     << StrEntry(<<"a", "b">>, "w1"), StrEntry(<<"b">>, "w2") >>,
     \* "ab" = "w1", "%Bz" = "g1", "b" = "w2"
     << StrEntry(<<"a", "b">>, "w1"), StrEntry(<<"%", "B", "z">>, "g1"),
        StrEntry(<<"b">>, "w2") >>,
     \* "%g" = ["b"], "%Bz" = "g1", "ab" = "w1", "b" = "w2"
     << ListEntry(<<"%", "g">>, << <<"b">> >>), StrEntry(<<"%", "B", "z">>, "g1"),
        StrEntry(<<"a", "b">>, "w1"), StrEntry(<<"b">>, "w2") >>,
     \* "B" = "w2", "%xb" = "g1", "%h" = ["B"]
     << StrEntry(<<"B">>, "w2"), StrEntry(<<"%", "x", "b">>, "g1"),
        ListEntry(<<"%", "h">>, << <<"B">> >>) >>
  >>

Configs == {ConfigTable[i] : i \in 1..NumConfigs}

\* config["general"]["wallpaper_dir"]
wallpaper_dir == "/wp"

\* str(Path(wallpaper_dir) / wallpaper_name)
JoinPath(dir, name) == <<dir, name>>

\* The groups of the table, marker stripped, in declaration order (line 32).
RECURSIVE song_groups(_)
song_groups(song_wallpapers) ==
  IF song_wallpapers = <<>> THEN <<>>
  ELSE LET h == Head(song_wallpapers)
           rest == song_groups(Tail(song_wallpapers))
       IN IF IsGroupKey(h.key)
            THEN <<[h EXCEPT !.key = Tail(h.key)]>> \o rest
            ELSE rest

\* ResolveSong comparing the song with the group's name as written (no
\* lower() at line 44).
RECURSIVE ResolveSongExact(_, _, _, _)
ResolveSongExact(song, wallpaper, groups, i) ==
  IF i > Len(groups) THEN wallpaper
  ELSE LET g == groups[i]
       IN IF g.isList /\ InList(song, g.list) THEN wallpaper
          ELSE IF ~g.isList /\ Contains(g.key, song) THEN g.str
          ELSE ResolveSongExact(song, wallpaper, groups, i + 1)

\* The inner loop of expand_song_groups (lines 38-50): the wallpaper one song
\* resolves to, scanning the groups from index i.
RECURSIVE ResolveSong(_, _, _, _)
ResolveSong(song, wallpaper, groups, i) ==
  IF i > Len(groups) THEN wallpaper
  ELSE LET g == groups[i]
       IN IF g.isList /\ InList(song, g.list) THEN wallpaper
          ELSE IF ~g.isList /\ Contains(Lower(g.key), Lower(song)) THEN g.str
          ELSE ResolveSong(song, wallpaper, groups, i + 1)

\* ExpandFrom putting each new entry in front of the ones before it.
RECURSIVE ExpandFromReversed(_, _, _)
ExpandFromReversed(song_wallpapers, groups, i) ==
  IF i > Len(song_wallpapers) THEN <<>>
  ELSE LET it == song_wallpapers[i]
           rest == ExpandFromReversed(song_wallpapers, groups, i + 1)
       IN IF IsGroupKey(it.key) THEN rest
          ELSE rest \o <<[song |-> it.key,
                          wallpaper |-> ResolveSong(it.key, it.str, groups, 1)]>>

\* ExpandFrom without the `continue` of lines 35-36.
RECURSIVE ExpandFromKeepingGroups(_, _, _)
ExpandFromKeepingGroups(song_wallpapers, groups, i) ==
  IF i > Len(song_wallpapers) THEN <<>>
  ELSE LET it == song_wallpapers[i]
       IN <<[song |-> it.key,
             wallpaper |-> ResolveSong(it.key, it.str, groups, 1)]>>
          \o ExpandFromKeepingGroups(song_wallpapers, groups, i + 1)

\* The outer loop of expand_song_groups over the items from index i on.
RECURSIVE ExpandFrom(_, _, _)
ExpandFrom(song_wallpapers, groups, i) ==
  IF i > Len(song_wallpapers) THEN <<>>
  ELSE LET it == song_wallpapers[i]
           rest == ExpandFrom(song_wallpapers, groups, i + 1)
       IN IF IsGroupKey(it.key) THEN rest
          ELSE <<[song |-> it.key,
                  wallpaper |-> ResolveSong(it.key, it.str, groups, 1)]>> \o rest

\* The resolved mapping, in insertion order.
expand_song_groups(song_wallpapers) ==
  ExpandFrom(song_wallpapers, song_groups(song_wallpapers), 1)

\* FirstMatch falling back to the entry the loop visited last when no key is
\* in the title.
RECURSIVE FirstMatchOrLast(_, _, _)
FirstMatchOrLast(title, mapping, i) ==
  IF i > Len(mapping) THEN Len(mapping)
  ELSE IF Contains(Lower(title), Lower(mapping[i].song)) THEN i
  ELSE FirstMatchOrLast(title, mapping, i + 1)

\* FirstMatch comparing the key with the title as written (no lower() at
\* line 336).
RECURSIVE FirstMatchExact(_, _, _)
FirstMatchExact(title, mapping, i) ==
  IF i > Len(mapping) THEN 0
  ELSE IF Contains(title, mapping[i].song) THEN i
  ELSE FirstMatchExact(title, mapping, i + 1)

\* The for loop of run() (lines 335-336): the index of the first entry whose
\* key, lower-cased, is in the title, lower-cased; 0 when there is none.
RECURSIVE FirstMatch(_, _, _)
FirstMatch(title, mapping, i) ==
  IF i > Len(mapping) THEN 0
  ELSE IF Contains(Lower(title), Lower(mapping[i].song)) THEN i
  ELSE FirstMatch(title, mapping, i + 1)

\* ------------------------------------------------------------- environment
\* What the media player reports on one poll: whether the DBus read works,
\* PlaybackStatus, the xesam:title of the metadata ("" when absent) and
\* whether xesam:artist has a first element.
TitleTable ==
  << <<"A", "b">>, <<"x", "b">>, <<"z">>, <<"a", "B", "x">>, <<"B", "z">> >>

Titles == {TitleTable[i] : i \in 1..NumTitles}

Sources ==
  {[available |-> FALSE, status |-> "Stopped", title |-> <<>>, artist |-> TRUE]}
  \cup {[available |-> TRUE, status |-> "Paused", title |-> TitleTable[1],
         artist |-> TRUE]}
  \cup {[available |-> TRUE, status |-> "Playing", title |-> t, artist |-> TRUE] :
          t \in Titles \cup {<<>>}}
  \cup {[available |-> TRUE, status |-> "Playing", title |-> TitleTable[1],
         artist |-> FALSE]}

\* What the file system and the backend's programs do during one call:
\*   exists   os.path.exists of the wallpaper file asked for
\*   write    writing hyprpaper.conf (write_text, shutil.copy2): "ok", "fail"
\*   restart  launching killall and hyprpaper: "ok", "nolaunch" (OSError)
\*   pgrep    `pgrep swww-daemon`: "ok", "nonzero" (not running), "nolaunch"
\*   init     `swww init`: "ok", "nonzero", "nolaunch"
\*   img      `swww img`: "set" (exit 0, image shown), "ignored" (exit 0, the
\*            display keeps what it showed), "nonzero", "nolaunch"
\*   query    `swww query` after the change: "ok", "nonzero"
Env(ex, wr, rs, pg, ini, im, qu) ==
  [exists |-> ex, write |-> wr, restart |-> rs, pgrep |-> pg, init |-> ini,
   img |-> im, query |-> qu]

HyprEnvs ==
  {Env(FALSE, "ok", "ok", "ok", "ok", "set", "ok")}
  \cup {Env(TRUE, wr, rs, "ok", "ok", "set", "ok") :
          wr \in {"ok", "fail"}, rs \in {"ok", "nolaunch"}}

SwwwEnvs ==
  {Env(FALSE, "ok", "ok", "ok", "ok", "set", "ok")}
  \cup {Env(TRUE, "ok", "ok", "nolaunch", "ok", "set", "ok")}
  \cup {Env(TRUE, "ok", "ok", "nonzero", ini, "set", "ok") :
          ini \in {"nonzero", "nolaunch"}}
  \cup {Env(TRUE, "ok", "ok", "nonzero", "ok", "set", "ok")}
  \cup {Env(TRUE, "ok", "ok", "ok", "ok", im, "ok") : im \in {"nonzero", "nolaunch"}}
  \cup {Env(TRUE, "ok", "ok", "ok", "ok", im, qu) :
          im \in {"set", "ignored"}, qu \in {"ok", "nonzero"}}

Envs(b) == IF b = "hyprpaper" THEN HyprEnvs ELSE SwwwEnvs

\* ------------------------------------------------------------ the backends
\* A line of hyprpaper.conf: what it starts with ("preload", "wallpaper" or
\* anything else) and the rest of the line, as parts.
Line(k, v) == [key |-> k, val |-> v]

\* The loop of update_hyprpaper_config (lines 218-226).
RewriteLines(config_lines, filepath) ==
  [i \in 1..Len(config_lines) |->
     IF config_lines[i].key = "preload" THEN Line("preload", filepath)
     ELSE IF config_lines[i].key = "wallpaper" THEN Line("wallpaper", <<"">> \o filepath)
     ELSE config_lines[i]]

HasLine(config_lines, k) == \E i \in 1..Len(config_lines) : config_lines[i].key = k

\* update_hyprpaper_config: conf is the file (None when absent).
update_hyprpaper_config(conf, filepath, e) ==
  IF e.write = "fail" THEN [conf |-> conf, ret |-> "False"]
  ELSE LET config_lines == IF conf = None THEN <<>> ELSE conf[1]
           replaced == RewriteLines(config_lines, filepath)
           with_preload ==
             IF HasLine(config_lines, "preload") THEN replaced
             ELSE Append(replaced, Line("preload", filepath))
           new_config ==
             IF HasLine(config_lines, "wallpaper") THEN with_preload
             ELSE Append(with_preload, Line("wallpaper", <<"">> \o filepath))
       IN [conf |-> Some(new_config), ret |-> "True"]

\* restart_hyprpaper: subprocess.run without check and Popen raise no
\* CalledProcessError, so the except clause never runs; a program that cannot
\* be launched raises OSError, which leaves the method.
restart_hyprpaper(e) == IF e.restart = "ok" THEN "True" ELSE "raise"

\* set_swww_wallpaper: shown is what swww displays (None: no image), as
\* `swww query` reports it for one output.  Line 163 is outside any handler
\* for OSError, and so is line 167; the second try block catches everything.
\* The verification of lines 183-188 succeeds when the image reported is the
\* one asked for.
set_swww_wallpaper(shown, filepath, e) ==
  LET daemon ==
        IF e.pgrep = "ok" THEN "True"
        ELSE IF e.pgrep = "nolaunch" THEN "raise"
        ELSE IF e.init = "ok" THEN "True"
        ELSE IF e.init = "nonzero" THEN "False"
        ELSE "raise"
      now == IF e.img = "set" THEN Some(filepath) ELSE shown
  IN IF daemon # "True" THEN [swww |-> shown, ret |-> daemon]
     ELSE IF e.img \in {"nonzero", "nolaunch"} THEN [swww |-> shown, ret |-> "False"]
     ELSE IF e.query # "ok" THEN [swww |-> now, ret |-> "False"]
     ELSE [swww |-> now, ret |-> IF now = Some(filepath) THEN "True" ELSE "False"]

\* ----------------------------------------------------------- the controller
\* Lines 263-268 of change_wallpaper: the path is recorded, then the backend
\* is called; applied is the path handed to the backend.
backend_apply(w, wallpaper_path, e) ==
  LET w1 == [w EXCEPT !.current_wallpaper = Some(wallpaper_path)]
  IN IF w.backend = "hyprpaper"
       THEN LET u == update_hyprpaper_config(w1.hyprpaper_conf, wallpaper_path, e)
            IN [w |-> [w1 EXCEPT !.hyprpaper_conf = u.conf],
                ret |-> IF u.ret = "True" THEN restart_hyprpaper(e) ELSE "False",
                applied |-> Some(wallpaper_path)]
       ELSE LET r == set_swww_wallpaper(w1.swww_wallpaper, wallpaper_path, e)
            IN [w |-> [w1 EXCEPT !.swww_wallpaper = r.swww], ret |-> r.ret,
                applied |-> Some(wallpaper_path)]

\* change_wallpaper without the test of line 256.
change_wallpaper_unconditional(w, wallpaper_name, e) ==
  IF ~e.exists THEN [w |-> w, ret |-> "False", applied |-> None]
  ELSE backend_apply(w, JoinPath(wallpaper_dir, wallpaper_name), e)

\* change_wallpaper on the object w; applied is None when the backend was
\* not called.
change_wallpaper(w, wallpaper_name, e) ==
  LET wallpaper_path == JoinPath(wallpaper_dir, wallpaper_name)
  IN IF w.current_wallpaper = Some(wallpaper_path)
       THEN [w |-> w, ret |-> "True", applied |-> None]
     ELSE IF ~e.exists
       THEN [w |-> w, ret |-> "False", applied |-> None]
     ELSE backend_apply(w, wallpaper_path, e)

\* The ways restore_original_config ends.  invoked: the call got past the
\* guard of line 271; backend: a backend operation (copy2, restart_hyprpaper,
\* set_swww_wallpaper) ran.
RestoreNoOp(w) == [w |-> w, ret |-> "True", invoked |-> FALSE, backend |-> FALSE]

RestoreFailed(w, ops) == [w |-> w, ret |-> "False", invoked |-> TRUE, backend |-> ops]

\* A success that removes the backup files it restored from.
RestoreDoneBackupRemoved(w) ==
  [w |-> [w EXCEPT !.using_default_wallpaper = TRUE, !.current_wallpaper = None,
                   !.backup_config = None, !.backup_wallpaper = None],
   ret |-> "True", invoked |-> TRUE, backend |-> TRUE]

RestoreDone(w) ==
  [w |-> [w EXCEPT !.using_default_wallpaper = TRUE, !.current_wallpaper = None],
   ret |-> "True", invoked |-> TRUE, backend |-> TRUE]

\* A success that leaves the flag as it was.
RestoreDoneFlagKept(w) ==
  [w |-> [w EXCEPT !.current_wallpaper = None],
   ret |-> "True", invoked |-> TRUE, backend |-> TRUE]

\* A failure that marks the controller Default all the same.
RestoreFailedMarked(w, ops) ==
  [w |-> [w EXCEPT !.using_default_wallpaper = TRUE, !.current_wallpaper = None],
   ret |-> "False", invoked |-> TRUE, backend |-> ops]

\* Lines 275-315 of restore_original_config, up to the outcome: the files
\* and the display afterwards, whether the backend restored (ok) and whether
\* a backend operation ran.  Every exception is caught (line 313).
restore_from_backup(w, e) ==
  LET failed(x, ops) == [w |-> x, ok |-> FALSE, backend |-> ops]
      done(x) == [w |-> x, ok |-> TRUE, backend |-> TRUE]
  IN IF w.backend = "hyprpaper"
       THEN IF w.backup_config = None THEN failed(w, FALSE)
            ELSE IF e.write = "fail" THEN failed(w, TRUE)
            ELSE LET w1 == [w EXCEPT !.hyprpaper_conf = w.backup_config]
                 IN IF restart_hyprpaper(e) = "True" THEN done(w1) ELSE failed(w1, TRUE)
       ELSE IF w.backup_wallpaper = None THEN failed(w, FALSE)
            ELSE IF ~e.exists THEN failed(w, FALSE)
            ELSE LET previous_wallpaper == w.backup_wallpaper[1]
                     r == set_swww_wallpaper(w.swww_wallpaper, previous_wallpaper, e)
                     w1 == [w EXCEPT !.swww_wallpaper = r.swww]
                 IN IF r.ret = "True" THEN done(w1) ELSE failed(w1, TRUE)

\* restore_original_config without the guard of lines 271-273.
restore_unguarded(w, e) ==
  LET b == restore_from_backup(w, e)
  IN IF b.ok THEN RestoreDone(b.w) ELSE RestoreFailed(b.w, b.backend)

\* restore_original_config with lines 283 and 301 left out.
restore_flag_kept(w, e) ==
  LET b == restore_from_backup(w, e)
  IN IF w.using_default_wallpaper THEN RestoreNoOp(w)
     ELSE IF b.ok THEN RestoreDoneFlagKept(b.w) ELSE RestoreFailed(b.w, b.backend)

\* restore_original_config setting the flag before it knows the outcome.
restore_marked_on_failure(w, e) ==
  LET b == restore_from_backup(w, e)
  IN IF w.using_default_wallpaper THEN RestoreNoOp(w)
     ELSE IF b.ok THEN RestoreDone(b.w) ELSE RestoreFailedMarked(b.w, b.backend)

\* restore_original_config on the object w.
restore_original_config(w, e) ==
  LET b == restore_from_backup(w, e)
  IN IF w.using_default_wallpaper THEN RestoreNoOp(w)
     ELSE IF b.ok THEN RestoreDone(b.w) ELSE RestoreFailed(b.w, b.backend)

\* get_song_info: (title, playback_status); the artist is only printed.
get_song_info(src) ==
  IF ~src.available THEN [title |-> None, playback_status |-> "None"]
  ELSE IF src.status # "Playing" THEN [title |-> None, playback_status |-> src.status]
  ELSE IF ~src.artist THEN [title |-> None, playback_status |-> src.status]
  ELSE [title |-> Some(src.title), playback_status |-> src.status]

\* `if title:` and the for loop of run() (lines 334-336): the index of the
\* entry the loop stops at, 0 when the title is None or "" or nothing matches.
MatchOf(title, mapping) ==
  IF title # None /\ title[1] # <<>> THEN FirstMatch(title[1], mapping, 1) ELSE 0

\* run_iteration with one line changed, named by v:
\*   "unavailable_idle"  a poll that cannot read the media source sleeps
\*                       without looking at using_default_wallpaper
\*   "title_kept"        lines 330 and 349 left out
run_iteration_variant(w, last_matched_title, src, e, interrupted, v) ==
  LET info == get_song_info(src)
      title == info.title
      base == [w |-> w, last_matched_title |-> last_matched_title,
               last_playback_status |-> info.playback_status,
               title |-> title, key |-> None, missing |-> FALSE,
               cached |-> FALSE, apply |-> "none", applied |-> None,
               restore |-> "none", outcome |-> "sleep"]
      restored ==
        IF w.using_default_wallpaper THEN base
        ELSE LET r == restore_original_config(w, e)
             IN [base EXCEPT !.w = r.w,
                             !.last_matched_title =
                                IF v = "title_kept" THEN last_matched_title ELSE None,
                             !.restore = r.ret]
      m == MatchOf(title, w.expanded_song_wallpapers)
  IN IF v = "unavailable_idle" /\ ~src.available THEN base
     ELSE IF info.playback_status # "Playing" THEN restored
     ELSE IF m = 0 THEN restored
     ELSE LET entry == w.expanded_song_wallpapers[m]
              matched == [base EXCEPT !.key = Some(entry.song),
                                      !.missing = ~e.exists]
          IN IF title = last_matched_title THEN matched
             ELSE LET c == change_wallpaper(w, entry.wallpaper, e)
                      called == [matched EXCEPT
                                   !.w = c.w, !.applied = c.applied,
                                   !.cached = (c.applied = None /\ c.ret = "True"),
                                   !.apply = IF c.applied = None THEN "none" ELSE c.ret]
                  IN IF c.ret = "raise" THEN [called EXCEPT !.outcome = "raise"]
                     ELSE IF interrupted THEN [called EXCEPT !.outcome = "interrupted"]
                     ELSE IF c.ret = "True"
                       THEN [called EXCEPT !.w.using_default_wallpaper = FALSE,
                                           !.last_matched_title = title]
                     ELSE called

run_iteration_unavailable_idle(w, last_matched_title, src, e, interrupted) ==
  run_iteration_variant(w, last_matched_title, src, e, interrupted,
                        "unavailable_idle")

run_iteration_title_kept(w, last_matched_title, src, e, interrupted) ==
  run_iteration_variant(w, last_matched_title, src, e, interrupted, "title_kept")

\* One iteration of the while loop of run() on the object w, with run()'s
\* local last_matched_title.  interrupted: a KeyboardInterrupt arrives when
\* change_wallpaper returns (line 339), before line 341 runs.  The result
\* holds the object and the local afterwards, and what the iteration did:
\*   title    the title get_song_info returned
\*   key      the song key the for loop stopped at (None: no entry matched)
\*   missing  an entry matched and its wallpaper file is not on disk
\*   cached   change_wallpaper was called and returned at line 257
\*   apply    the backend apply's result ("none": the backend was not called)
\*   applied  the path handed to the backend
\*   restore  restore_original_config's result ("none": it was not called)
\*   outcome  "sleep" (line 331 or 351 reached), "raise" (an exception left
\*            run) or "interrupted"
run_iteration(w, last_matched_title, src, e, interrupted) ==
  LET info == get_song_info(src)
      title == info.title
      base == [w |-> w, last_matched_title |-> last_matched_title,
               last_playback_status |-> info.playback_status,
               title |-> title, key |-> None, missing |-> FALSE,
               cached |-> FALSE, apply |-> "none", applied |-> None,
               restore |-> "none", outcome |-> "sleep"]
      restored ==
        IF w.using_default_wallpaper THEN base
        ELSE LET r == restore_original_config(w, e)
             IN [base EXCEPT !.w = r.w, !.last_matched_title = None,
                             !.restore = r.ret]
      m == MatchOf(title, w.expanded_song_wallpapers)
  IN IF info.playback_status # "Playing" THEN restored
     ELSE IF m = 0 THEN restored
     ELSE LET entry == w.expanded_song_wallpapers[m]
              matched == [base EXCEPT !.key = Some(entry.song),
                                      !.missing = ~e.exists]
          IN IF title = last_matched_title THEN matched
             ELSE LET c == change_wallpaper(w, entry.wallpaper, e)
                      called == [matched EXCEPT
                                   !.w = c.w, !.applied = c.applied,
                                   !.cached = (c.applied = None /\ c.ret = "True"),
                                   !.apply = IF c.applied = None THEN "none" ELSE c.ret]
                  IN IF c.ret = "raise" THEN [called EXCEPT !.outcome = "raise"]
                     ELSE IF interrupted THEN [called EXCEPT !.outcome = "interrupted"]
                     ELSE IF c.ret = "True"
                       THEN [called EXCEPT !.w.using_default_wallpaper = FALSE,
                                           !.last_matched_title = title]
                     ELSE called

\* ---------------------------------------------------------------- startup
OrigPath == <<"/home", "orig.png">>
StalePath == <<"/home", "old.png">>

\* hyprpaper.conf as the user wrote it.
OrigConf ==
  << Line("preload", OrigPath), Line("other", <<"splash = false">>),
     Line("wallpaper", <<"eDP-1">> \o OrigPath) >>
StaleConf == << Line("preload", StalePath), Line("wallpaper", <<"eDP-1">> \o StalePath) >>

\* backup_current_config: the backup file after it, given hyprpaper.conf,
\* the file /tmp/hyprpaper.conf.backup found at startup and whether copy2 works.
backup_current_config(conf, backup, copy) ==
  IF conf # None /\ copy = "ok" THEN conf ELSE backup

\* backup_current_wallpaper: the backup file after it, given what swww shows,
\* the file /tmp/swww.wallpaper.backup found at startup and how `swww query`
\* ends ("ok", "nonzero", "nolaunch").
backup_current_wallpaper(shown, backup, query) ==
  IF query = "ok" /\ shown # None THEN shown ELSE backup

\* ------------------------------------------------------------------ state
VARIABLES
  backend,                  \* self.backend
  song_wallpapers,          \* self.config["song_wallpapers"]
  expanded_song_wallpapers, \* self.expanded_song_wallpapers
  current_wallpaper,        \* self.current_wallpaper
  using_default_wallpaper,  \* self.using_default_wallpaper
  last_playback_status,     \* self.last_playback_status
  last_matched_title,       \* run()'s local
  hyprpaper_conf,           \* ~/.config/hypr/hyprpaper.conf (None: absent)
  backup_config,            \* /tmp/hyprpaper.conf.backup (None: absent)
  swww_wallpaper,           \* the image swww displays (None: no image)
  backup_wallpaper,         \* /tmp/swww.wallpaper.backup (None: absent)
  pc,                       \* "running", "crashed" (an exception left run),
                            \* "interrupted" (KeyboardInterrupt left run), "exited"
  log,                      \* what the last step did
  since_restore,            \* backend applies since the last successful restore
  last_applied,             \* the path of the last backend apply that returned
                            \* True since the last successful restore
  startup                   \* the backend's state when the process started

vars ==
  << backend, song_wallpapers, expanded_song_wallpapers, current_wallpaper,
     using_default_wallpaper, last_playback_status, last_matched_title,
     hyprpaper_conf, backup_config, swww_wallpaper, backup_wallpaper, pc, log,
     since_restore, last_applied, startup >>

\* The MusicPaper object and the files it works on.
Self ==
  [backend |-> backend, expanded_song_wallpapers |-> expanded_song_wallpapers,
   current_wallpaper |-> current_wallpaper,
   using_default_wallpaper |-> using_default_wallpaper,
   hyprpaper_conf |-> hyprpaper_conf, backup_config |-> backup_config,
   swww_wallpaper |-> swww_wallpaper, backup_wallpaper |-> backup_wallpaper]

Store(w) ==
  /\ current_wallpaper' = w.current_wallpaper
  /\ using_default_wallpaper' = w.using_default_wallpaper
  /\ hyprpaper_conf' = w.hyprpaper_conf
  /\ backup_config' = w.backup_config
  /\ swww_wallpaper' = w.swww_wallpaper
  /\ backup_wallpaper' = w.backup_wallpaper
  /\ UNCHANGED << backend, song_wallpapers, expanded_song_wallpapers, startup >>

\* since_restore after a step: "none", "attempted" (a backend apply was
\* called, none returned True) or "applied" (a backend apply returned True).
SinceAfter(s, apply, restore) ==
  IF restore = "True" THEN "none"
  ELSE IF apply = "True" THEN "applied"
  ELSE IF apply \in {"False", "raise"} /\ s = "none" THEN "attempted"
  ELSE s

\* last_applied after a step.
AppliedAfter(p, apply, applied, restore) ==
  IF restore = "True" THEN None
  ELSE IF apply = "True" THEN applied
  ELSE p

\* The record of one step: its kind ("init", "tick", "interrupted",
\* "handler"), where the interrupt arrived, what the iteration r did, what the
\* restore did, whether the backend held an applied song wallpaper when
\* main()'s handler began, and pre, what is kept of the step before.
LogOf(kind, point, r, restore, dirty, pre) ==
  [kind |-> kind, point |-> point, status |-> r.last_playback_status,
   title |-> r.title, key |-> r.key, missing |-> r.missing, cached |-> r.cached,
   apply |-> r.apply, applied |-> r.applied, restore |-> restore,
   dirty |-> dirty, pre |-> pre]

NoIteration ==
  [last_playback_status |-> "None", title |-> None, key |-> None,
   missing |-> FALSE, cached |-> FALSE, apply |-> "none", applied |-> None]

\* What a step's record keeps of the step before it: whether that step
\* matched the same song key, and what its restore did.
PreOf(l, r) ==
  [same_key |-> r.key # None /\ l.key = r.key, restore |-> l.restore]

\* __init__ (lines 13-26): the configuration is loaded, the backend's state
\* is backed up, the controller starts in Default.
Init ==
  /\ backend \in {"hyprpaper", "swww"}
  /\ song_wallpapers \in Configs
  /\ expanded_song_wallpapers = expand_song_groups(song_wallpapers)
  /\ current_wallpaper = None
  /\ using_default_wallpaper = TRUE
  /\ last_playback_status = "None"
  /\ last_matched_title = None
  /\ IF backend = "hyprpaper"
       THEN /\ hyprpaper_conf \in {None, Some(OrigConf)}
            /\ \E found \in {None, Some(StaleConf)}, copy \in {"ok", "fail"} :
                 backup_config = backup_current_config(hyprpaper_conf, found, copy)
            /\ swww_wallpaper = None
            /\ backup_wallpaper = None
       ELSE /\ swww_wallpaper \in {None, Some(OrigPath)}
            /\ \E found \in {None, Some(StalePath)},
                  query \in {"ok", "nonzero", "nolaunch"} :
                 backup_wallpaper = backup_current_wallpaper(swww_wallpaper, found, query)
            /\ hyprpaper_conf = None
            /\ backup_config = None
  /\ pc = "running"
  /\ log = LogOf("init", "none", NoIteration, "none", FALSE,
               [same_key |-> FALSE, restore |-> "none"])
  /\ since_restore = "none"
  /\ last_applied = None
  /\ startup = [conf |-> hyprpaper_conf, swww |-> swww_wallpaper]

\* One poll: the loop body of run() (lines 322-351).
Tick ==
  /\ pc = "running"
  /\ \E src \in Sources, e \in Envs(backend) :
       \E r \in {run_iteration(Self, last_matched_title, src, e, FALSE)} :
          /\ Store(r.w)
          /\ last_matched_title' = r.last_matched_title
          /\ last_playback_status' = r.last_playback_status
          /\ pc' = IF r.outcome = "raise" THEN "crashed" ELSE "running"
          /\ log' = LogOf("tick", "none", r, r.restore, FALSE,
                          PreOf(log, r))
          /\ since_restore' = SinceAfter(since_restore, r.apply, r.restore)
          /\ last_applied' = AppliedAfter(last_applied, r.apply, r.applied, r.restore)

\* KeyboardInterrupt during time.sleep (line 331 or 351): run() is left
\* between two iterations.
InterruptInSleep ==
  /\ pc = "running"
  /\ pc' = "interrupted"
  /\ log' = [log EXCEPT !.kind = "interrupted", !.point = "sleep"]
  /\ UNCHANGED << backend, song_wallpapers, expanded_song_wallpapers,
                  current_wallpaper, using_default_wallpaper,
                  last_playback_status, last_matched_title, hyprpaper_conf,
                  backup_config, swww_wallpaper, backup_wallpaper,
                  since_restore, last_applied, startup >>

\* KeyboardInterrupt when change_wallpaper returns (line 339), before line
\* 341: the iteration is left with the flag and the local as they were.
InterruptInTick ==
  /\ pc = "running"
  /\ \E src \in Sources, e \in Envs(backend) :
       \E r \in {run_iteration(Self, last_matched_title, src, e, TRUE)} :
          /\ r.outcome = "interrupted"
          /\ Store(r.w)
          /\ last_matched_title' = r.last_matched_title
          /\ last_playback_status' = r.last_playback_status
          /\ pc' = "interrupted"
          /\ log' = LogOf("interrupted", "change_wallpaper", r, r.restore, FALSE,
                          PreOf(log, r))
          /\ since_restore' = SinceAfter(since_restore, r.apply, r.restore)
          /\ last_applied' = AppliedAfter(last_applied, r.apply, r.applied, r.restore)

\* The environments the handler can tell apart: it reads none at its guard.
HandlerEnvs(w) ==
  IF w.using_default_wallpaper THEN {CHOOSE e \in Envs(w.backend) : ~e.exists}
  ELSE Envs(w.backend)

\* main()'s except clause (lines 357-359): restore_original_config, then the
\* process exits.  The record keeps the interrupted iteration and adds the
\* handler's restore ("noop": it returned True at its guard).
Handler ==
  /\ pc = "interrupted"
  /\ \E e \in HandlerEnvs(Self) :
       \E h \in {restore_original_config(Self, e)} :
          /\ Store(h.w)
          /\ UNCHANGED << last_matched_title, last_playback_status >>
          /\ pc' = "exited"
          /\ log' = [log EXCEPT
                       !.kind = "handler",
                       !.restore = IF ~h.invoked /\ ~h.backend /\ h.ret = "True"
                                     THEN "noop" ELSE h.ret,
                       !.dirty = (since_restore = "applied"),
                       !.pre.restore = log.restore]
          /\ since_restore' = SinceAfter(since_restore, "none",
                                          IF h.invoked THEN h.ret ELSE "none")
          /\ last_applied' = AppliedAfter(last_applied, "none", None,
                                          IF h.invoked THEN h.ret ELSE "none")

Next == Tick \/ InterruptInSleep \/ InterruptInTick \/ Handler

Spec == Init /\ [][Next]_vars

\* ------------------------------------- the configuration file, on its own
\* How many items the song_wallpapers table of the configuration may hold.
MaxEntries == 3

\* The items a song_wallpapers table is made of: songs (one with the empty
\* key, which TOML allows when quoted), fuzzy groups and enumerated groups.
EntryPool ==
  { StrEntry(<<"b">>, "w2"), StrEntry(<<"a", "b">>, "w1"), StrEntry(<<"B">>, "w3"),
    StrEntry(<<>>, "w0"),
    StrEntry(<<"%", "B", "z">>, "g1"), StrEntry(<<"%", "x", "b">>, "g2"),
    ListEntry(<<"%", "g">>, << <<"b">> >>),
    ListEntry(<<"%", "B", "z">>, << <<"a", "b">> >>) }

\* The tables tomli.load can return: items in file order, no key twice.
RawMappings ==
  { m \in UNION {[1..n -> EntryPool] : n \in 0..MaxEntries} :
      \A i, j \in 1..Len(m) : m[i].key = m[j].key => i = j }

\* The titles get_song_info can return.
MatchTitles == {None} \cup {Some(t) : t \in Titles \cup {<<>>}}

\* load_config has returned (line 18); expand_song_groups has not run yet.
InitConfig ==
  /\ song_wallpapers \in RawMappings
  /\ expanded_song_wallpapers = <<>>
  /\ backend = "hyprpaper"
  /\ current_wallpaper = None
  /\ using_default_wallpaper = TRUE
  /\ last_playback_status = "None"
  /\ last_matched_title = None
  /\ hyprpaper_conf = None
  /\ backup_config = None
  /\ swww_wallpaper = None
  /\ backup_wallpaper = None
  /\ pc = "loaded"
  /\ log = LogOf("init", "none", NoIteration, "none", FALSE,
               [same_key |-> FALSE, restore |-> "none"])
  /\ since_restore = "none"
  /\ last_applied = None
  /\ startup = [conf |-> None, swww |-> None]

\* Line 26 of __init__.
Expand ==
  /\ pc = "loaded"
  /\ expanded_song_wallpapers' = expand_song_groups(song_wallpapers)
  /\ pc' = "expanded"
  /\ UNCHANGED << backend, song_wallpapers, current_wallpaper,
                  using_default_wallpaper, last_playback_status,
                  last_matched_title, hyprpaper_conf, backup_config,
                  swww_wallpaper, backup_wallpaper, log, since_restore,
                  last_applied, startup >>

\* Lines 334-336 of run() on one title: the entry the for loop stops at.
Match ==
  /\ pc \in {"expanded", "matched"}
  /\ \E title \in MatchTitles :
       \E m \in {MatchOf(title, expanded_song_wallpapers)} :
          log' = LogOf("match", "none",
                       [NoIteration EXCEPT
                          !.title = title,
                          !.key = IF m = 0 THEN None
                                  ELSE Some(expanded_song_wallpapers[m].song)],
                       "none", FALSE, [same_key |-> FALSE, restore |-> "none"])
  /\ pc' = "matched"
  /\ UNCHANGED << backend, song_wallpapers, expanded_song_wallpapers,
                  current_wallpaper, using_default_wallpaper,
                  last_playback_status, last_matched_title, hyprpaper_conf,
                  backup_config, swww_wallpaper, backup_wallpaper,
                  since_restore, last_applied, startup >>

NextConfig == Expand \/ Match

SpecConfig == InitConfig /\ [][NextConfig]_vars

\* ------------------------------------------------------------ properties
\* The path change_wallpaper builds for the entry of song key k.
PathOfKey(k) ==
  LET i == CHOOSE j \in 1..Len(expanded_song_wallpapers) :
             expanded_song_wallpapers[j].song = k
  IN JoinPath(wallpaper_dir, expanded_song_wallpapers[i].wallpaper)

\* The step is a whole poll (not one cut short by an interrupt).
IsTick(l) == l.kind = "tick"

\* restore_original_config got past its guard.
RestoreInvoked(l) == l.restore \in {"True", "False"}

\* C1, as stated: of two consecutive polls that match the same song key, the
\* second never calls the backend apply, whatever the first one did.
C1_SameKeyNeverApplies ==
  [][(IsTick(log) /\ log.key # None /\ IsTick(log') /\ log'.key = log.key)
       => log'.apply = "none"]_vars

\* C1, amended: of two consecutive polls that match the same song key, the
\* second does not call the backend apply if the first one ended with
\* current_wallpaper equal to the matched wallpaper's path (as it does
\* whenever the first one called the backend apply, whatever the outcome).
C1_NoSecondApply ==
  [][(IsTick(log) /\ log.key # None /\ IsTick(log') /\ log'.key = log.key
      /\ current_wallpaper = Some(PathOfKey(log.key[1])))
       => log'.apply = "none"]_vars

\* A poll matched the key of the poll before it, called change_wallpaper and
\* got True back without a backend call.
C1_Witness == IsTick(log) /\ log.pre.same_key /\ log.cached /\ log.apply = "none"

\* C2: using_default_wallpaper turns false only in a poll whose backend apply
\* was called with the matched wallpaper's path and returned True, and that
\* poll records the title.
C2_ActiveOnlyBySuccessfulApply ==
  [][(using_default_wallpaper /\ ~using_default_wallpaper')
       => /\ log'.key # None
          /\ log'.apply = "True"
          /\ log'.applied = Some(PathOfKey(log'.key[1]))
          /\ last_matched_title' = log'.title]_vars

\* C3: when a poll's backend apply failed and the next poll sees the same
\* track playing and matching (its file still on disk), that poll calls the
\* backend apply again.
C3_FailedApplyRetried ==
  [][(IsTick(log) /\ log.apply = "False" /\ IsTick(log')
      /\ log'.status = "Playing" /\ log'.title = log.title
      /\ log'.key = log.key /\ ~log'.missing)
       => log'.apply # "none"]_vars

\* C4: a poll that starts Active and sees no match (not Playing, or a title
\* no key is in) invokes the restore; a restore that succeeds leaves the
\* controller Default with current_wallpaper and the last matched title
\* None; and a poll invokes the restore only when the controller is Active
\* and a backend apply was called since the last successful restore.
C4_RestoreOnce ==
  [][IsTick(log') =>
       /\ (~using_default_wallpaper /\ log'.key = None) => RestoreInvoked(log')
       /\ log'.restore = "True" =>
            /\ using_default_wallpaper'
            /\ current_wallpaper' = None
            /\ last_matched_title' = None
       /\ log'.restore # "none" =>
            /\ ~using_default_wallpaper
            /\ since_restore # "none"]_vars

\* The poll after a successful restore sees no match again and invokes no
\* restore.
C4_Witness ==
  /\ IsTick(log) /\ log.pre.restore = "True"
  /\ log.key = None /\ log.restore = "none"
  /\ using_default_wallpaper /\ current_wallpaper = None
  /\ last_matched_title = None

\* C5: a restore that returns False in a poll leaves using_default_wallpaper
\* false, and as long as it is false every poll that sees no match invokes
\* the restore again.
C5_FailedRestoreRetried ==
  [][IsTick(log') =>
       /\ log'.restore = "False" => ~using_default_wallpaper'
       /\ (~using_default_wallpaper /\ log'.key = None)
            => (RestoreInvoked(log') /\ last_matched_title' = None)]_vars

\* A restore failed, and the poll after it invoked the restore again, which
\* failed again.
C5_Witness ==
  /\ IsTick(log) /\ log.pre.restore = "False" /\ log.restore = "False"
  /\ ~using_default_wallpaper

\* C6: when the process exits after an interrupt and the backend held an
\* applied song wallpaper not restored since, the handler invoked the restore.
C6_RestoreOnInterrupt ==
  (pc = "exited" /\ log.dirty) => RestoreInvoked(log)

\* C7: no exception leaves run().
C7_NoExceptionLeavesRun == pc # "crashed"

\* C8: after a restore that succeeded, the backend is in the state it was in
\* at startup: hyprpaper.conf has its startup contents, swww shows the
\* startup wallpaper.
C8_RestoreIsStartupState ==
  log.restore = "True" =>
    IF backend = "hyprpaper" THEN hyprpaper_conf = startup.conf
    ELSE swww_wallpaper = startup.swww

\* C9: restore_original_config called in Default returns True at its guard,
\* calls no backend operation and changes nothing; so a restore right after
\* a successful one calls nothing.
C9_RestoreNoOpInDefault ==
  [][(pc = "interrupted" /\ pc' = "exited") =>
       /\ using_default_wallpaper =>
            /\ log'.restore = "noop"
            /\ UNCHANGED << current_wallpaper, using_default_wallpaper,
                            last_matched_title, hyprpaper_conf, backup_config,
                            swww_wallpaper, backup_wallpaper >>
       /\ log.restore = "True" => log'.restore = "noop"]_vars

\* The handler's restore came right after a poll's successful restore and
\* returned at the guard.
C9_Witness ==
  /\ log.kind = "handler" /\ log.point = "sleep"
  /\ log.pre.restore = "True" /\ log.restore = "noop"

\* C10: a poll whose matched wallpaper file is not on disk calls neither the
\* backend apply nor the restore and leaves current_wallpaper,
\* using_default_wallpaper and the last matched title as they were.
C10_MissingAssetNoChange ==
  [][(IsTick(log') /\ log'.missing) =>
       /\ log'.apply = "none"
       /\ log'.restore = "none"
       /\ UNCHANGED << current_wallpaper, using_default_wallpaper,
                       last_matched_title >>]_vars

\* --------------------------------------- the expander and the matcher
\* The indexes of the resolved entries whose key, lower-cased, is a part of
\* the title t, lower-cased.
Hits(t) ==
  {i \in 1..Len(expanded_song_wallpapers) :
     Contains(Lower(t), Lower(expanded_song_wallpapers[i].song))}

FirstOf(S) == CHOOSE i \in S : \A j \in S : i <= j

\* C11, as stated: the poll loop selects the first entry, in stored order,
\* whose key lower-cased is a part of the title lower-cased, and no entry when
\* the title is None or no key is such a part.
C11_FirstSubstringOrNone ==
  log.kind = "match" =>
    IF log.title = None \/ Hits(log.title[1]) = {} THEN log.key = None
    ELSE log.key = Some(expanded_song_wallpapers[FirstOf(Hits(log.title[1]))].song)

\* C11, amended: the same for every title that is not empty; for a title
\* that is None or empty no entry is selected, whatever the keys.
C11_FirstSubstringOfTitle ==
  log.kind = "match" =>
    IF log.title = None \/ log.title[1] = <<>> \/ Hits(log.title[1]) = {}
      THEN log.key = None
    ELSE log.key = Some(expanded_song_wallpapers[FirstOf(Hits(log.title[1]))].song)

\* Two keys are in the title, one of them written in another case than the
\* title, and the first of them in stored order is selected.
C11_Witness ==
  /\ log.kind = "match" /\ log.title # None
  /\ Cardinality(Hits(log.title[1])) >= 2
  /\ \E i \in Hits(log.title[1]) :
       ~Contains(log.title[1], expanded_song_wallpapers[i].song)
  /\ FirstOf(Hits(log.title[1])) > 1
  /\ log.key = Some(expanded_song_wallpapers[FirstOf(Hits(log.title[1]))].song)

\* The item is a song; the item g is an enumerated group listing the song
\* key k; the item g is a fuzzy group whose name contains k, case ignored.
IsSong(it) == ~IsGroupKey(it.key)

Enumerates(g, k) == IsGroupKey(g.key) /\ g.isList /\ InList(k, g.list)

FuzzyFor(g, k) ==
  IsGroupKey(g.key) /\ ~g.isList /\ Contains(Lower(Tail(g.key)), Lower(k))

\* The resolved mapping has the entry k -> v.
ResolvesTo(k, v) ==
  \E j \in 1..Len(expanded_song_wallpapers) :
     /\ expanded_song_wallpapers[j].song = k
     /\ expanded_song_wallpapers[j].wallpaper = v

\* C12: a song key listed in some enumerated group resolves to its own
\* configured wallpaper, whatever fuzzy groups there are and wherever they
\* are declared.
C12_EnumeratedKeepsOwnWallpaper ==
  pc # "loaded" =>
    \A i, j \in 1..Len(song_wallpapers) :
       (IsSong(song_wallpapers[i])
        /\ Enumerates(song_wallpapers[j], song_wallpapers[i].key))
         => ResolvesTo(song_wallpapers[i].key, song_wallpapers[i].str)

\* C13, as stated: a song key that is a part of a fuzzy group's name, case
\* ignored, resolves to that group's wallpaper.
C13_FuzzyGroupOverrides ==
  pc # "loaded" =>
    \A i, j \in 1..Len(song_wallpapers) :
       (IsSong(song_wallpapers[i])
        /\ FuzzyFor(song_wallpapers[j], song_wallpapers[i].key))
         => ResolvesTo(song_wallpapers[i].key, song_wallpapers[j].str)

\* C13, amended: it does when no enumerated group lists the song key and no
\* fuzzy group declared before this one has the key in its name.
C13_FirstFuzzyGroupOverrides ==
  pc # "loaded" =>
    \A i, j \in 1..Len(song_wallpapers) :
       (/\ IsSong(song_wallpapers[i])
        /\ FuzzyFor(song_wallpapers[j], song_wallpapers[i].key)
        /\ \A n \in 1..Len(song_wallpapers) :
             ~Enumerates(song_wallpapers[n], song_wallpapers[i].key)
        /\ \A n \in 1..(j - 1) :
             ~FuzzyFor(song_wallpapers[n], song_wallpapers[i].key))
         => ResolvesTo(song_wallpapers[i].key, song_wallpapers[j].str)

\* A song key is in the names of two fuzzy groups with different wallpapers
\* and resolves to the wallpaper of the one declared first, not to its own.
C13_Witness ==
  /\ pc = "expanded"
  /\ \E i, j, n \in 1..Len(song_wallpapers) :
       /\ j < n
       /\ IsSong(song_wallpapers[i])
       /\ FuzzyFor(song_wallpapers[j], song_wallpapers[i].key)
       /\ FuzzyFor(song_wallpapers[n], song_wallpapers[i].key)
       /\ song_wallpapers[j].str # song_wallpapers[i].str
       /\ ResolvesTo(song_wallpapers[i].key, song_wallpapers[j].str)
       /\ ~ResolvesTo(song_wallpapers[i].key, song_wallpapers[n].str)

\* C14: a table without group keys resolves to itself: the same pairs in the
\* same order, and none for the empty table.
C14_NoGroupsIdentity ==
  (pc # "loaded" /\ \A i \in 1..Len(song_wallpapers) : IsSong(song_wallpapers[i]))
    => expanded_song_wallpapers =
         [i \in 1..Len(song_wallpapers) |->
            [song |-> song_wallpapers[i].key, wallpaper |-> song_wallpapers[i].str]]

\* A table of several songs and no group has been expanded.
C14_Witness ==
  /\ pc = "expanded" /\ Len(song_wallpapers) >= 2
  /\ \A i \in 1..Len(song_wallpapers) : IsSong(song_wallpapers[i])
  /\ Len(expanded_song_wallpapers) = Len(song_wallpapers)
  /\ expanded_song_wallpapers[2].song = song_wallpapers[2].key
  /\ expanded_song_wallpapers[2].wallpaper = song_wallpapers[2].str

\* C18: the keys of the resolved mapping are the keys of the table that do
\* not start with '%', in the table's order, each once; no key of it starts
\* with '%', and a group's name is a key only when the table has it as a song.
C18_KeysAreTheSongKeys ==
  pc # "loaded" =>
    LET songs == SelectSeq(song_wallpapers, IsSong)
        keys == [i \in 1..Len(expanded_song_wallpapers) |->
                   expanded_song_wallpapers[i].song]
    IN /\ keys = [i \in 1..Len(songs) |-> songs[i].key]
       /\ \A i, j \in 1..Len(keys) : keys[i] = keys[j] => i = j
       /\ \A i \in 1..Len(keys) :
            /\ ~IsGroupKey(keys[i])
            /\ \E n \in 1..Len(song_wallpapers) : song_wallpapers[n].key = keys[i]

\* A table with a group that no song refers to, declared between two songs,
\* has been expanded to the two songs.
C18_Witness ==
  /\ pc = "expanded" /\ Len(song_wallpapers) = 3
  /\ IsSong(song_wallpapers[1]) /\ IsSong(song_wallpapers[3])
  /\ IsGroupKey(song_wallpapers[2].key)
  /\ ~Enumerates(song_wallpapers[2], song_wallpapers[1].key)
  /\ ~FuzzyFor(song_wallpapers[2], song_wallpapers[1].key)
  /\ ~Enumerates(song_wallpapers[2], song_wallpapers[3].key)
  /\ ~FuzzyFor(song_wallpapers[2], song_wallpapers[3].key)
  /\ Len(expanded_song_wallpapers) = 2
  /\ expanded_song_wallpapers[1].song = song_wallpapers[1].key
  /\ expanded_song_wallpapers[2].song = song_wallpapers[3].key

\* ------------------------------------------------- the frame of a poll
\* What a poll r does to the backend and leaves in the controller.
Effect(r) ==
  [apply |-> r.apply, applied |-> r.applied, restore |-> r.restore,
   outcome |-> r.outcome,
   using_default_wallpaper |-> r.w.using_default_wallpaper,
   current_wallpaper |-> r.w.current_wallpaper,
   last_matched_title |-> r.last_matched_title,
   hyprpaper_conf |-> r.w.hyprpaper_conf, swww_wallpaper |-> r.w.swww_wallpaper]

\* C15: from every state between two polls, and whatever the backend does, a
\* poll that cannot read the media source calls the backend as, and leaves
\* the controller as, a poll that reads a status other than Playing.
C15_UnavailableAsNotPlaying ==
  pc = "running" =>
    \A e \in Envs(backend), u \in Sources, s \in Sources :
       (~u.available /\ s.available /\ s.status # "Playing")
         => Effect(run_iteration(Self, last_matched_title, u, e, FALSE))
              = Effect(run_iteration(Self, last_matched_title, s, e, FALSE))

\* A poll that could not read the media source found the controller Active
\* and restored.
C15_Witness ==
  /\ IsTick(log) /\ log.status = "None" /\ log.pre.restore = "none"
  /\ log.restore = "True" /\ using_default_wallpaper

\* The poll l saw nothing to match: not Playing (or no source), no title, an
\* empty title, or a title no key is in.
NoMatchSeen(l) ==
  \/ l.status # "Playing"
  \/ l.title = None
  \/ l.title[1] = <<>>
  \/ Hits(l.title[1]) = {}

\* C16: a poll that starts in Default and sees nothing to match calls neither
\* the backend apply nor the restore and leaves using_default_wallpaper,
\* current_wallpaper, the last matched title and the backend as they were.
C16_DefaultNoMatchNoOp ==
  [][(IsTick(log') /\ using_default_wallpaper /\ NoMatchSeen(log')) =>
       /\ log'.key = None
       /\ log'.apply = "none"
       /\ log'.restore = "none"
       /\ UNCHANGED << using_default_wallpaper, current_wallpaper,
                       last_matched_title, hyprpaper_conf, swww_wallpaper >>]_vars

\* A poll in Default saw a playing title that no key is in, and did nothing.
C16_Witness ==
  /\ IsTick(log) /\ log.status = "Playing"
  /\ log.title # None /\ log.title # Some(<<>>) /\ NoMatchSeen(log)
  /\ using_default_wallpaper /\ log.apply = "none" /\ log.restore = "none"

\* C17: once __init__ has finished, no poll, apply or restore writes or
\* removes a backup file.
C17_BackupWrittenAtStartupOnly ==
  [][UNCHANGED << backup_config, backup_wallpaper >>]_vars

\* A restore has read the backup file and succeeded, and the file is there.
C17_Witness ==
  /\ log.restore = "True" /\ log.kind \in {"tick", "handler"}
  /\ IF backend = "hyprpaper" THEN backup_config # None /\ hyprpaper_conf = backup_config
     ELSE backup_wallpaper # None /\ swww_wallpaper = backup_wallpaper

\* C19: between two polls current_wallpaper is None or the path of the last
\* backend apply that returned True since the last successful restore, and
\* it is None whenever using_default_wallpaper is true.
C19_RecordedTracksBackend ==
  pc = "running" =>
    /\ current_wallpaper = None
         \/ (last_applied # None /\ current_wallpaper = last_applied)
    /\ using_default_wallpaper => current_wallpaper = None

\* C20: between two polls, using_default_wallpaper true implies the last
\* matched title is None; so a poll that starts in Default and matches a key
\* passes the title test of line 337, and calls the backend apply unless the
\* file is missing or change_wallpaper returns at line 257.
C20_DefaultHasNoMatchedTitle ==
  /\ []((pc = "running" /\ using_default_wallpaper) => last_matched_title = None)
  /\ [][(IsTick(log') /\ using_default_wallpaper /\ log'.key # None) =>
          /\ log'.title # last_matched_title
          /\ (~log'.missing /\ ~log'.cached) => log'.apply # "none"]_vars

\* The controller was Active, a poll restored, and the next poll matched a
\* key and called the backend apply.
C20_Witness ==
  /\ IsTick(log) /\ log.pre.restore = "True" /\ log.key # None
  /\ log.apply # "none" /\ log.title = last_matched_title

====
